---- MODULE Spec2Model ----
(***************************************************************************)
(* Model of fw/fdcanusb.cc: the clock set-up (SetupClock), the             *)
(* ClockManager that re-applies the clock when the persisted "clock"       *)
(* record is loaded or written, and main(): boot sequence and the          *)
(* two-cadence polling loop.                                               *)
(*                                                                         *)
(* 32-bit unsigned values (the millisecond timer, start, now) are pairs    *)
(* <<hi, lo>> of 16-bit halves with arithmetic modulo 2^32, because the    *)
(* model checker's integers are themselves 32-bit signed.                  *)
(*                                                                         *)
(* Three specifications share the actions: Spec (every stored value, a     *)
(* short time), SpecTiming (two outer cycles, the counter near its         *)
(* overflow) and SpecLive (time without bound, with fairness).             *)
(***************************************************************************)
EXTENDS Integers, Sequences, FiniteSets, TLC

VARIABLES
  pc,             \* line of main() that executes next
  inCall,         \* the Poll()/Poll10Ms() call of main() in progress, or "none"
  sc,             \* position inside SetupClock, "none" when not running
  clock_rate_hz,  \* argument of the running (or last) SetupClock call
  hal_status,     \* what the last HAL call of SetupClock returned
  can_hz,         \* ClockManager::clock_.can_hz
  registered,     \* the "clock" record and its callback are registered
  flash,          \* the stored clock.can_hz, <<v>>, or <<>> when none is stored
  rcc,            \* the clock tree registers programmed through the HAL
  clock,          \* milliseconds elapsed since main() entered its loop
  timerBase,      \* 32-bit value of the millisecond counter at clock = 0
  start,          \* main(): const uint32_t start
  nWrites,        \* number of external writes of the "clock" record so far
  bootLog,        \* history: boot steps of main() executed so far
  setupLog,       \* history: SetupClock calls, who made them, with what
  steps,          \* history: HAL steps of the running (or last) SetupClock
  calls,          \* history: calls main() made since its last timer read
  last10,         \* history: time of the last Poll10Ms call per pollable
  gap10,          \* history: time between the last two Poll10Ms calls
  drivers,        \* per peripheral driver: hz, the system clock it was
                  \* constructed under; inits, how often it was set up
  cycle,          \* history of the outer cycle in progress: at, the time at
                  \* which start was read; idle, whether its inner loop
                  \* ended at its first check, before any pass
  env             \* environment of this run: horizon, the milliseconds of
                  \* timer time it explores; writable, the values an external
                  \* write may store; contexts, the calls of main() inside
                  \* which a write may be handled

vars == <<pc, inCall, sc, clock_rate_hz, hal_status, can_hz, registered,
          flash, rcc, clock, timerBase, start, nWrites, bootLog, setupLog,
          steps, calls, last10, gap10, env, cycle, drivers>>

----------------------------------------------------------------------------
(* Bounds of the model *)

\* milliseconds of timer time explored with every stored and written value
ShortTime == 11

\* milliseconds of timer time explored with the values of TimingValues
MaxTime == 23

\* external writes of the "clock" record explored
MaxWrites == 1

\* milliseconds of timer time the runs of unbounded length keep track of,
\* counted from the last read of start
LiveTime == 12

----------------------------------------------------------------------------
(* Program constants *)

Hz85 == 85000000

Hz80 == 80000000

Hz60 == 60000000

BootClockHz == 170000000

Default_can_hz == 85000000

Period == 10

Half == 65536

Int32Min == -2147483647 - 1

Int32Max == 2147483647

\* values of the persisted can_hz the model draws from: the tier boundaries
\* and their neighbours, zero, a negative value and the int32 extremes
CanHzValues ==
  {Int32Min, -1, 0, 59999999, 60000000, 61000000, 79999999, 80000000,
   84999999, 85000000, Int32Max}

\* the values an external write stores in the runs that draw the stored
\* value from CanHzValues: one for each branch of the selection
WriteValues == {-1, 60000000, 84999999, 85000000}

\* the value an external write stores in the long runs
TimingValues == {60000000}

\* counter values the timer may hold when main() constructs it; the second
\* one stands for a long uptime, 5 ms before the counter overflows
TimerStarts == {<<0, 0>>, <<Half - 1, Half - 5>>}

----------------------------------------------------------------------------
(* 32-bit arithmetic *)

\* int32 multiplication by two (two's complement)
Times2(x) ==
  IF x >= 1073741824 THEN ((x - 1073741824) - 1073741824) + x
  ELSE IF x < -1073741824 THEN ((x + 1073741824) + 1073741824) + x
  ELSE x * 2

\* uint32 a + n, for a small natural n
Add32(a, n) ==
  LET lo == a[2] + n
      hi == a[1] + (lo \div Half)
  IN  <<hi % Half, lo % Half>>

\* uint32 a - b
Sub32(a, b) ==
  LET borrow == IF a[2] < b[2] THEN 1 ELSE 0
      lo == (a[2] + Half * borrow) - b[2]
      hi == (a[1] - b[1] - borrow) % Half
  IN  <<hi, lo>>

\* uint32 a > n, for a natural n < 65536
Gt32(a, n) == a[1] > 0 \/ a[2] > n

\* fw::MillisecondTimer::read_ms()
read_ms == Add32(timerBase, clock)

----------------------------------------------------------------------------
(* ClockManager *)

\* Select with > written for >=
SelectStrict(hz) ==
  IF hz > Hz85 THEN Hz85
  ELSE IF hz > Hz80 THEN Hz80
  ELSE IF hz > Hz60 THEN Hz60
  ELSE Hz85

\* Select with a digit lost in the middle tier
SelectTypo(hz) ==
  IF hz >= Hz85 THEN Hz85
  ELSE IF hz >= Hz80 THEN 8000000
  ELSE IF hz >= Hz60 THEN Hz60
  ELSE Hz85

\* the lambda of ClockManager::UpdateConfig
Select(hz) ==
  IF hz >= Hz85 THEN Hz85
  ELSE IF hz >= Hz80 THEN Hz80
  ELSE IF hz >= Hz60 THEN Hz60
  ELSE Hz85

\* entry of SetupClock(arg): the two clock enables, then the first HAL step.
\* The history records the argument and the caller's note: who calls and,
\* on the update path, the can_hz read and the frequency selected
SetupClockCall(arg, note) ==
  /\ sc' = "ClockConfigHSI"
  /\ clock_rate_hz' = arg
  /\ rcc' = [rcc EXCEPT !.SYSCFG_PWR_EN = TRUE]
  /\ hal_status' = "none"
  /\ steps' = <<>>
  /\ setupLog' = Append(setupLog, [arg |-> arg, from |-> note.from,
                                   hz |-> note.hz, sel |-> note.sel,
                                   at |-> pc, during |-> inCall])

\* UpdateConfig that doubles the stored value instead of the selected one
UpdateConfigRaw(hz, from) ==
  LET can_clock_hz == Select(hz)
  IN  /\ SetupClockCall(Times2(hz),
                        [from |-> from, hz |-> <<hz>>,
                         sel |-> <<can_clock_hz>>])
      /\ UNCHANGED drivers

\* UpdateConfig that leaves the clock alone when it already has the rate
UpdateConfigSkip(hz, from) ==
  LET can_clock_hz == Select(hz)
  IN  /\ IF Times2(can_clock_hz) = clock_rate_hz
           THEN UNCHANGED <<sc, clock_rate_hz, hal_status, rcc, steps,
                            setupLog>>
           ELSE SetupClockCall(Times2(can_clock_hz),
                               [from |-> from, hz |-> <<hz>>,
                                sel |-> <<can_clock_hz>>])
      /\ UNCHANGED drivers

\* UpdateConfig that also sets up the drivers again, for the new clock
UpdateConfigReinit(hz, from) ==
  LET can_clock_hz == Select(hz)
  IN  /\ SetupClockCall(Times2(can_clock_hz),
                        [from |-> from, hz |-> <<hz>>,
                         sel |-> <<can_clock_hz>>])
      /\ drivers' = [d \in DOMAIN drivers |->
                       IF drivers[d].inits = 0 THEN drivers[d]
                       ELSE [hz |-> Times2(can_clock_hz),
                             inits |-> drivers[d].inits + 1]]

\* ClockManager::UpdateConfig with clock_.can_hz = hz: the selection and
\* the SetupClock call, and nothing else
UpdateConfig(hz, from) ==
  LET can_clock_hz == Select(hz)
  IN  /\ SetupClockCall(Times2(can_clock_hz),
                        [from |-> from, hz |-> <<hz>>,
                         sel |-> <<can_clock_hz>>])
      /\ UNCHANGED drivers

----------------------------------------------------------------------------
(* SetupClock, one action per HAL call *)

\* what a HAL call leaves behind: the new registers when it succeeds, the old
\* or the new ones when it is rejected
HalResult(ok, new) == IF ok THEN {new} ELSE {rcc, new}

\* a HAL step without its call of mbed_die
HalStepIgnore(name, new, next) ==
  /\ \E ok \in BOOLEAN :
       /\ hal_status' = IF ok THEN "HAL_OK" ELSE "HAL_ERROR"
       /\ rcc' \in HalResult(ok, new)
       /\ sc' = next
  /\ steps' = Append(steps, name)
  /\ UNCHANGED <<pc, inCall, clock_rate_hz, can_hz, registered, flash, clock,
                 timerBase, start, nWrites, bootLog, setupLog, calls, last10,
                 gap10, env, cycle, drivers>>

HalStep(name, new, next) ==
  /\ \E ok \in BOOLEAN :
       /\ hal_status' = IF ok THEN "HAL_OK" ELSE "HAL_ERROR"
       /\ rcc' \in HalResult(ok, new)
       /\ sc' = IF hal_status' # "HAL_OK" THEN "mbed_die" ELSE next
  /\ steps' = Append(steps, name)
  /\ UNCHANGED <<pc, inCall, clock_rate_hz, can_hz, registered, flash, clock,
                 timerBase, start, nWrites, bootLog, setupLog, calls, last10,
                 gap10, env, cycle, drivers>>

\* PLLN with the division made first
PLLNDivFirst(hz) == ((hz \div 1000000) \div 48) * 24

PLLN(hz) == ((hz \div 1000000) * 24) \div 48

\* the first step with the clock source of the third
ClockConfigHSIWrongSource ==
  /\ sc = "ClockConfigHSI"
  /\ HalStep("ClockConfigHSI",
             [rcc EXCEPT !.SYSCLKSource = "PLLCLK", !.Latency = 6],
             "OscConfig")

ClockConfigHSI ==
  /\ sc = "ClockConfigHSI"
  /\ HalStep("ClockConfigHSI",
             [rcc EXCEPT !.SYSCLKSource = "HSI", !.Latency = 6],
             "OscConfig")

OscConfig ==
  /\ sc = "OscConfig"
  /\ HalStep("OscConfig",
             [rcc EXCEPT !.HSI = TRUE, !.HSI48 = TRUE, !.PLL = TRUE,
                         !.PLLSource = "HSI", !.PLLM = 4,
                         !.PLLN = PLLN(clock_rate_hz), !.PLLR = 2],
             "ClockConfigPLL")

\* the third step with the clock source of the first
ClockConfigPLLOnHSI ==
  /\ sc = "ClockConfigPLL"
  /\ HalStep("ClockConfigPLL",
             [rcc EXCEPT !.SYSCLKSource = "HSI", !.AHBCLKDivider = 1,
                         !.APB1CLKDivider = 2, !.APB2CLKDivider = 2,
                         !.Latency = 6],
             "PeriphCLKConfig")

ClockConfigPLL ==
  /\ sc = "ClockConfigPLL"
  /\ HalStep("ClockConfigPLL",
             [rcc EXCEPT !.SYSCLKSource = "PLLCLK", !.AHBCLKDivider = 1,
                         !.APB1CLKDivider = 2, !.APB2CLKDivider = 2,
                         !.Latency = 6],
             "PeriphCLKConfig")

PeriphCLKConfig ==
  /\ sc = "PeriphCLKConfig"
  /\ HalStep("PeriphCLKConfig",
             [rcc EXCEPT !.FdcanClockSelection = "PCLK1"],
             "none")

----------------------------------------------------------------------------
(* main(): boot *)

\* main() runs only while no SetupClock call is in progress
Running == sc = "none" /\ inCall = "none"

BootStep(name, next) ==
  /\ Running
  /\ pc' = next
  /\ bootLog' = Append(bootLog, name)

MainSetupClock ==
  /\ pc = "L123"
  /\ BootStep("SetupClock", "L125")
  /\ SetupClockCall(BootClockHz, [from |-> "main", hz |-> <<>>, sel |-> <<>>])
  /\ UNCHANGED <<inCall, can_hz, registered, flash, clock, timerBase, start,
                 nWrites, calls, last10, gap10, env, cycle, drivers>>

Construct(name, next) ==
  /\ BootStep(name, next)
  /\ drivers' = IF name \in DOMAIN drivers
                  THEN [drivers EXCEPT ![name] =
                          [hz |-> clock_rate_hz, inits |-> @.inits + 1]]
                  ELSE drivers
  /\ UNCHANGED <<inCall, sc, clock_rate_hz, hal_status, can_hz, registered,
                 flash, rcc, clock, timerBase, start, nWrites, setupLog,
                 steps, calls, last10, gap10, env, cycle>>

ConstructTimer ==
  /\ pc = "L125"
  /\ Construct("timer", "L131")

ConstructUsb ==
  /\ pc = "L131"
  /\ Construct("usb", "L133")

ConstructUart ==
  /\ pc = "L133"
  /\ Construct("uart", "L147")

ConstructPersistentConfig ==
  /\ pc = "L147"
  /\ Construct("persistent_config", "L163")

\* a constructor that does not register the record
ConstructClockManagerNoRegister ==
  /\ pc = "L163"
  /\ Construct("clock", "L165")

\* a constructor that also applies the configuration itself
ConstructClockManagerApplies ==
  /\ pc = "L163"
  /\ BootStep("clock", "L165")
  /\ registered' = TRUE
  /\ UpdateConfig(can_hz, "constructor")
  /\ UNCHANGED <<inCall, can_hz, flash, clock, timerBase, start, nWrites,
                 calls, last10, gap10, env, cycle>>

ConstructClockManager ==
  /\ pc = "L163"
  /\ BootStep("clock", "L165")
  /\ registered' = TRUE
  /\ UNCHANGED <<inCall, sc, clock_rate_hz, hal_status, can_hz, flash, rcc,
                 clock, timerBase, start, nWrites, setupLog, steps, calls,
                 last10, gap10, env, cycle, drivers>>

ConstructCanManager ==
  /\ pc = "L165"
  /\ Construct("can_manager", "L174")

ConstructInfo ==
  /\ pc = "L174"
  /\ Construct("firmware_info", "L179")

\* persistent_config.Load(): the stored value, when there is one, replaces
\* the default, and the callback of every registered record runs once
Load ==
  /\ pc = "L179"
  /\ BootStep("Load", "L181")
  /\ can_hz' = IF flash = <<>> THEN can_hz ELSE flash[1]
  /\ IF registered
       THEN UpdateConfig(can_hz', "Load")
       ELSE UNCHANGED <<sc, clock_rate_hz, hal_status, rcc, steps, setupLog,
                        drivers>>
  /\ UNCHANGED <<inCall, registered, flash, clock, timerBase, start, nWrites,
                 calls, last10, gap10, env, cycle>>

AsyncStart ==
  /\ pc = "L181"
  /\ Construct("AsyncStart", "L182")

CanManagerStart ==
  /\ pc = "L182"
  /\ Construct("Start", "L185")

----------------------------------------------------------------------------
(* main(): the polling loop *)

\* Expired with >= written for >
ExpiredAtTen(n, s) == Gt32(Sub32(n, s), Period - 1)

\* Expired as now > start + 10, on the raw counter values
ExpiredAbsolute(n, s) ==
  LET e == Add32(s, Period)
  IN  n[1] > e[1] \/ (n[1] = e[1] /\ n[2] > e[2])

\* Expired with the operands of the subtraction exchanged
ExpiredSwapped(n, s) == Gt32(Sub32(s, n), Period)

\* now - start > 10
Expired(n, s) == Gt32(Sub32(n, s), Period)

ReadStart ==
  /\ Running
  /\ pc = "L185"
  /\ start' = read_ms
  /\ calls' = <<>>
  /\ cycle' = [at |-> clock, idle |-> FALSE]
  /\ pc' = "L187"
  /\ UNCHANGED <<inCall, sc, clock_rate_hz, hal_status, can_hz, registered,
                 flash, rcc, clock, timerBase, nWrites, bootLog, setupLog,
                 steps, last10, gap10, env, drivers>>

\* the inner loop as a do-while: no check before the first pass
CheckElapsedAfterPass ==
  /\ Running
  /\ pc = "L187"
  /\ calls' = <<>>
  /\ LET now == read_ms
     IN  /\ pc' = IF Expired(now, start) /\ calls # <<>>
                   THEN "L195" ELSE "L190"
         /\ cycle' = [cycle EXCEPT !.idle = FALSE]
  /\ UNCHANGED <<inCall, sc, clock_rate_hz, hal_status, can_hz, registered,
                 flash, rcc, clock, timerBase, start, nWrites, bootLog,
                 setupLog, steps, last10, gap10, env, drivers>>

\* the inner loop without its test
CheckElapsedNoBreak ==
  /\ Running
  /\ pc = "L187"
  /\ calls' = <<>>
  /\ pc' = "L190"
  /\ UNCHANGED <<inCall, sc, clock_rate_hz, hal_status, can_hz, registered,
                 flash, rcc, clock, timerBase, start, nWrites, bootLog,
                 setupLog, steps, last10, gap10, env, cycle, drivers>>

CheckElapsed ==
  /\ Running
  /\ pc = "L187"
  /\ calls' = <<>>
  /\ LET now == read_ms
     IN  /\ pc' = IF Expired(now, start) THEN "L195" ELSE "L190"
         /\ cycle' = [cycle EXCEPT !.idle = Expired(now, start) /\ calls = <<>>]
  /\ UNCHANGED <<inCall, sc, clock_rate_hz, hal_status, can_hz, registered,
                 flash, rcc, clock, timerBase, start, nWrites, bootLog,
                 setupLog, steps, last10, gap10, env, drivers>>

PollCall(name) ==
  /\ Running
  /\ inCall' = name
  /\ calls' = Append(calls, name)
  /\ IF name \in DOMAIN last10
       THEN /\ last10' = [last10 EXCEPT ![name] = clock]
            /\ gap10' = [gap10 EXCEPT ![name] =
                           IF last10[name] < 0 THEN -1
                           ELSE clock - last10[name]]
       ELSE UNCHANGED <<last10, gap10>>
  /\ UNCHANGED <<pc, sc, clock_rate_hz, hal_status, can_hz, registered, flash,
                 rcc, clock, timerBase, start, nWrites, bootLog, setupLog,
                 steps, env, cycle, drivers>>

PollReturn(next) ==
  /\ sc = "none"
  /\ inCall' = "none"
  /\ pc' = next
  /\ UNCHANGED <<sc, clock_rate_hz, hal_status, can_hz, registered, flash,
                 rcc, clock, timerBase, start, nWrites, bootLog, setupLog,
                 steps, calls, last10, gap10, env, cycle, drivers>>

UartPoll ==
  /\ pc = "L190"
  /\ PollCall("uart.Poll")

\* the loop body without its second line
UartPollReturnSkip ==
  /\ inCall = "uart.Poll"
  /\ PollReturn("L192")

UartPollReturn ==
  /\ inCall = "uart.Poll"
  /\ PollReturn("L191")

CanManagerPoll ==
  /\ pc = "L191"
  /\ PollCall("can_manager.Poll")

CanManagerPollReturn ==
  /\ inCall = "can_manager.Poll"
  /\ PollReturn("L192")

UsbPoll ==
  /\ pc = "L192"
  /\ PollCall("usb.Poll")

UsbPollReturn ==
  /\ inCall = "usb.Poll"
  /\ PollReturn("L187")

CanManagerPoll10Ms ==
  /\ pc = "L195"
  /\ PollCall("can_manager.Poll10Ms")

\* the maintenance round without its second line
CanManagerPoll10MsReturnSkip ==
  /\ inCall = "can_manager.Poll10Ms"
  /\ PollReturn("L185")

CanManagerPoll10MsReturn ==
  /\ inCall = "can_manager.Poll10Ms"
  /\ PollReturn("L196")

UsbPoll10Ms ==
  /\ pc = "L196"
  /\ PollCall("usb.Poll10Ms")

UsbPoll10MsReturn ==
  /\ inCall = "usb.Poll10Ms"
  /\ PollReturn("L185")

CallNames ==
  {"uart.Poll", "can_manager.Poll", "usb.Poll", "can_manager.Poll10Ms",
   "usb.Poll10Ms"}

LoopLines == {"L185", "L187", "L190", "L191", "L192", "L195", "L196"}

----------------------------------------------------------------------------
(* Environment *)

\* an external write of the "clock" record: the store sets the field and
\* runs the registered callback, synchronously. The command that asks for it
\* is handled by the drivers, which run only inside the calls main() makes
ConfigWrite ==
  /\ registered
  /\ sc = "none"
  /\ inCall \in env.contexts
  /\ nWrites < MaxWrites
  /\ nWrites' = nWrites + 1
  /\ \E v \in env.writable :
       /\ can_hz' = v
       /\ UpdateConfig(v, "write")
  /\ UNCHANGED <<pc, inCall, registered, flash, clock, timerBase, start,
                 bootLog, calls, last10, gap10, env, cycle>>

\* one millisecond passes. Nothing reads the timer before the loop, inside
\* SetupClock or after mbed_die: time is counted from the entry of the loop,
\* and the time a SetupClock call takes is counted to the call around it
Tick ==
  /\ pc \in LoopLines
  /\ sc = "none"
  /\ clock < env.horizon
  /\ clock' = clock + 1
  /\ UNCHANGED <<pc, inCall, sc, clock_rate_hz, hal_status, can_hz,
                 registered, flash, rcc, timerBase, start, nWrites, bootLog,
                 setupLog, steps, calls, last10, gap10, env, cycle, drivers>>

\* the origin from which clock counts moves to the last read of start. The
\* program uses the counter only through the difference now - start, which
\* this keeps, so a run goes on for any length of time with clock staying
\* within the horizon; a Poll10Ms call from before the new origin counts as
\* made at the origin
Rebase ==
  /\ pc \in LoopLines
  /\ cycle.at > 0
  /\ clock' = clock - cycle.at
  /\ start' = timerBase
  /\ cycle' = [cycle EXCEPT !.at = 0]
  /\ last10' = [p \in DOMAIN last10 |->
                  IF last10[p] < 0 THEN -1
                  ELSE IF last10[p] < cycle.at THEN 0
                  ELSE last10[p] - cycle.at]
  /\ UNCHANGED <<pc, inCall, sc, clock_rate_hz, hal_status, can_hz,
                 registered, flash, rcc, timerBase, nWrites, bootLog,
                 setupLog, steps, calls, gap10, env, drivers>>

----------------------------------------------------------------------------
(* Specification *)

\* the clock tree as the start-up code leaves it
RccReset ==
  [SYSCFG_PWR_EN |-> FALSE, SYSCLKSource |-> "PLLCLK", Latency |-> 0,
   HSI |-> TRUE, HSI48 |-> FALSE, PLL |-> TRUE, PLLSource |-> "HSI",
   PLLM |-> 0, PLLN |-> 0, PLLR |-> 0, AHBCLKDivider |-> 0,
   APB1CLKDivider |-> 0, APB2CLKDivider |-> 0,
   FdcanClockSelection |-> "reset"]

InitProgram ==
  /\ pc = "L123"
  /\ inCall = "none"
  /\ sc = "none"
  /\ clock_rate_hz = 0
  /\ hal_status = "none"
  /\ can_hz = Default_can_hz
  /\ registered = FALSE
  /\ rcc = RccReset
  /\ clock = 0
  /\ start = <<0, 0>>
  /\ nWrites = 0
  /\ bootLog = <<>>
  /\ setupLog = <<>>
  /\ steps = <<>>
  /\ calls = <<>>
  /\ last10 = [p \in {"can_manager.Poll10Ms", "usb.Poll10Ms"} |-> -1]
  /\ gap10 = [p \in {"can_manager.Poll10Ms", "usb.Poll10Ms"} |-> -1]
  /\ cycle = [at |-> 0, idle |-> FALSE]
  /\ drivers = [d \in {"usb", "uart", "can_manager"} |->
                 [hz |-> 0, inits |-> 0]]

\* every stored value and a write of each kind, handled inside usb.Poll
\* (the command manager reads from usb), over a short time
Init ==
  /\ InitProgram
  /\ flash \in {<<>>} \cup {<<v>> : v \in CanHzValues}
  /\ timerBase = <<0, 0>>
  /\ env = [horizon |-> ShortTime, writable |-> WriteValues,
            contexts |-> {"usb.Poll"}]

\* nothing stored and one written value, handled inside any call of the
\* loop, with the timer far from and close to its overflow, over a time long
\* enough for two rounds of Poll10Ms
InitTiming ==
  /\ InitProgram
  /\ flash = <<>>
  /\ timerBase \in TimerStarts
  /\ env = [horizon |-> MaxTime, writable |-> TimingValues,
            contexts |-> CallNames]

Next ==
  \/ MainSetupClock
  \/ ClockConfigHSI
  \/ OscConfig
  \/ ClockConfigPLL
  \/ PeriphCLKConfig
  \/ ConstructTimer
  \/ ConstructUsb
  \/ ConstructUart
  \/ ConstructPersistentConfig
  \/ ConstructClockManager
  \/ ConstructCanManager
  \/ ConstructInfo
  \/ Load
  \/ AsyncStart
  \/ CanManagerStart
  \/ ReadStart
  \/ CheckElapsed
  \/ UartPoll
  \/ UartPollReturn
  \/ CanManagerPoll
  \/ CanManagerPollReturn
  \/ UsbPoll
  \/ UsbPollReturn
  \/ CanManagerPoll10Ms
  \/ CanManagerPoll10MsReturn
  \/ UsbPoll10Ms
  \/ UsbPoll10MsReturn
  \/ ConfigWrite
  \/ Tick

\* the steps of the program itself: main() and the calls it makes
Program ==
  \/ MainSetupClock
  \/ ClockConfigHSI
  \/ OscConfig
  \/ ClockConfigPLL
  \/ PeriphCLKConfig
  \/ ConstructTimer
  \/ ConstructUsb
  \/ ConstructUart
  \/ ConstructPersistentConfig
  \/ ConstructClockManager
  \/ ConstructCanManager
  \/ ConstructInfo
  \/ Load
  \/ AsyncStart
  \/ CanManagerStart
  \/ ReadStart
  \/ CheckElapsed
  \/ UartPoll
  \/ UartPollReturn
  \/ CanManagerPoll
  \/ CanManagerPollReturn
  \/ UsbPoll
  \/ UsbPollReturn
  \/ CanManagerPoll10Ms
  \/ CanManagerPoll10MsReturn
  \/ UsbPoll10Ms
  \/ UsbPoll10MsReturn

\* nothing stored and one written value, handled inside usb.Poll, with time
\* unbounded: clock is kept within LiveTime by Rebase
InitLive ==
  /\ InitProgram
  /\ flash = <<>>
  /\ timerBase = <<0, 0>>
  /\ env = [horizon |-> LiveTime, writable |-> TimingValues,
            contexts |-> {"usb.Poll"}]

NextLive == Next \/ Rebase

\* the processor keeps executing the program: main() takes its next step,
\* the call in progress returns, the HAL call in progress ends; and the
\* timer keeps counting. Nothing says how fast either goes
Fairness ==
  /\ WF_vars(Program)
  /\ WF_vars(Tick)
  /\ WF_vars(Rebase)

Spec == Init /\ [][Next]_vars

SpecTiming == InitTiming /\ [][Next]_vars

SpecLive == InitLive /\ [][NextLive]_vars /\ Fairness

----------------------------------------------------------------------------
(* Properties *)

Tiers == {Hz60, Hz80, Hz85}

\* the highest tier that does not exceed hz, for hz >= 60,000,000
HighestTier(hz) ==
  CHOOSE t \in Tiers : t <= hz /\ \A u \in Tiers : u <= hz => u <= t

\* the SetupClock calls made by the update path
Updates == {i \in DOMAIN setupLog : setupLog[i].from # "main"}

HzOf(i) == setupLog[i].hz[1]

SelOf(i) == setupLog[i].sel[1]

IsPrefix(s, t) ==
  /\ Len(s) <= Len(t)
  /\ \A i \in 1..Len(s) : s[i] = t[i]

\* C1: whatever can_hz holds, the selection made by UpdateConfig is one of
\* the three tiers: the highest tier not above can_hz when can_hz is at
\* least 60,000,000, and 85,000,000 when can_hz is below 60,000,000
C1_SelectorTiers ==
  \A i \in Updates :
    /\ SelOf(i) \in Tiers
    /\ HzOf(i) >= 60000000 => SelOf(i) = HighestTier(HzOf(i))
    /\ HzOf(i) < 60000000 => SelOf(i) = 85000000
    /\ HzOf(i) = 84999999 => SelOf(i) = 80000000
    /\ HzOf(i) = 85000000 => SelOf(i) = 85000000
    /\ HzOf(i) = 79999999 => SelOf(i) = 60000000
    /\ HzOf(i) \in {59999999, 0, -1, Int32Min} => SelOf(i) = 85000000

\* C1: one run selected for 59,999,999 (the fallback) and for 84,999,999
C1_Witness ==
  \E i, j \in Updates :
    /\ HzOf(i) = 59999999 /\ SelOf(i) = 85000000
    /\ HzOf(j) = 84999999 /\ SelOf(j) = 80000000

\* C2: every SetupClock call of the update path gets twice the selected
\* frequency, one of 120,000,000 / 160,000,000 / 170,000,000, and while that
\* call runs its parameter is that value
C2_SetupClockArg ==
  /\ \A i \in Updates :
       /\ setupLog[i].arg = 2 * SelOf(i)
       /\ setupLog[i].arg \in {120000000, 160000000, 170000000}
  /\ setupLog # <<>> => clock_rate_hz = setupLog[Len(setupLog)].arg

\* C2: the update path ran on Load and on a write, with different rates
C2_Witness ==
  \E i, j \in Updates :
    /\ setupLog[i].from = "Load" /\ setupLog[i].arg = 160000000
    /\ setupLog[j].from = "write" /\ setupLog[j].arg = 120000000

Pass == <<"uart.Poll", "can_manager.Poll", "usb.Poll">>

Maintenance == <<"can_manager.Poll10Ms", "usb.Poll10Ms">>

\* C3: the calls main() makes between two reads of the timer are the three
\* Poll calls in the order uart, can_manager, usb, each once and with no
\* Poll10Ms among them, or the two Poll10Ms calls; when the loop comes back
\* to its check after a pass, the pass is complete
C3_PollOrder ==
  /\ IsPrefix(calls, Pass) \/ IsPrefix(calls, Maintenance)
  /\ (pc = "L187" /\ calls # <<>>) => calls = Pass
  /\ pc \in {"L190", "L191", "L192"} => IsPrefix(calls, Pass)
  /\ (pc = "L191" /\ inCall = "none") => calls = <<"uart.Poll">>
  /\ (pc = "L192" /\ inCall = "none") =>
       calls = <<"uart.Poll", "can_manager.Poll">>

\* C3: a pass is complete in a cycle that follows a round of Poll10Ms
C3_Witness ==
  /\ pc = "L187"
  /\ calls = Pass
  /\ last10["usb.Poll10Ms"] >= 0

\* C4: a Poll10Ms call of a pollable comes at least 10 ms of timer time
\* after the previous Poll10Ms call of the same pollable
C4_Poll10MsSpacing ==
  \A p \in DOMAIN gap10 : gap10[p] = -1 \/ gap10[p] >= 10

\* C4: a second round of Poll10Ms calls came after the first, later than
\* the loop alone makes it wait
C4_Witness ==
  /\ inCall = "usb.Poll10Ms"
  /\ gap10["usb.Poll10Ms"] > 11
  /\ gap10["can_manager.Poll10Ms"] >= 10

Halted == sc = "mbed_die"

AllSteps ==
  <<"ClockConfigHSI", "OscConfig", "ClockConfigPLL", "PeriphCLKConfig">>

\* C5: a HAL step of SetupClock that returns other than HAL_OK halts the
\* device at once, and once halted nothing more happens: no further step, no
\* retry, no return from SetupClock, no Poll or Poll10Ms call
C5_HaltOnFailure ==
  [][/\ (steps' # steps /\ hal_status' = "HAL_ERROR") => Halted'
     /\ Halted =>
          /\ Halted'
          /\ UNCHANGED <<pc, inCall, steps, hal_status, rcc, calls, setupLog,
                         bootLog, last10, can_hz>>]_vars

\* C5: the second step failed in a SetupClock call made on a write
C5_Witness ==
  /\ Halted
  /\ hal_status = "HAL_ERROR"
  /\ steps = <<"ClockConfigHSI", "OscConfig">>
  /\ setupLog[Len(setupLog)].from = "write"

Done(a) == \E i \in DOMAIN bootLog : bootLog[i] = a

\* every b in the boot history has an a before it
Before(a, b) ==
  \A j \in DOMAIN bootLog :
    bootLog[j] = b => \E i \in 1..(j - 1) : bootLog[i] = a

\* the last SetupClock call was for hz and ran to its end
ClockApplied(hz) ==
  /\ sc = "none"
  /\ steps = AllSteps
  /\ clock_rate_hz = hz
  /\ rcc.SYSCLKSource = "PLLCLK"

\* the system clock for the value flash holds
ExpectedClock ==
  IF flash = <<>> THEN 170000000
  ELSE IF flash[1] >= 60000000 THEN 2 * HighestTier(flash[1])
  ELSE 170000000

\* C6: main() first applies 170,000,000, before anything is constructed;
\* Load comes after the usb, uart and can drivers exist and before
\* AsyncStart, Start and the first Poll; Load runs the callback once; the
\* loop starts with the clock of the stored value applied
C6_BootSequence ==
  /\ bootLog # <<>> =>
       /\ bootLog[1] = "SetupClock"
       /\ setupLog[1].from = "main"
       /\ setupLog[1].arg = 170000000
  /\ (Len(bootLog) >= 2 /\ ~Done("Load")) => ClockApplied(170000000)
  /\ \A d \in {"usb", "uart", "can_manager"} : Before(d, "Load")
  /\ Before("Load", "AsyncStart")
  /\ Before("Load", "Start")
  /\ (pc \in LoopLines \/ calls # <<>>) =>
       Done("Load") /\ Done("AsyncStart") /\ Done("Start")
  /\ Cardinality({i \in DOMAIN setupLog : setupLog[i].from = "Load"})
       = IF Done("Load") THEN 1 ELSE 0
  /\ (pc = "L185" /\ nWrites = 0) =>
       /\ ClockApplied(ExpectedClock)
       /\ flash = <<85000000>> => clock_rate_hz = 170000000
       /\ flash = <<61000000>> => clock_rate_hz = 120000000
       /\ flash = <<0>> => clock_rate_hz = 170000000

\* C6: the loop starts with 61,000,000 stored and 120,000,000 applied
C6_Witness ==
  /\ pc = "L185"
  /\ nWrites = 0
  /\ flash = <<61000000>>
  /\ ClockApplied(120000000)

\* C7 as claimed: no SetupClock call starts while a Poll or Poll10Ms call
\* of the main loop is in progress
C7_NeverDuringPoll ==
  \A i \in DOMAIN setupLog : setupLog[i].during = "none"

\* C7 as amended: SetupClock is called by main() at boot, by the callback
\* during Load at boot, both with no Poll call in progress, and by the
\* callback on a later external write, and then inside the Poll or Poll10Ms
\* call of the main loop that handles the write; the loop itself never
\* calls it between its calls
C7_SetupClockContexts ==
  \A i \in DOMAIN setupLog :
    LET e == setupLog[i]
    IN  \/ i = 1 /\ e.from = "main" /\ e.at = "L123" /\ e.during = "none"
        \/ i = 2 /\ e.from = "Load" /\ e.at = "L179" /\ e.during = "none"
        \/ /\ i > 2
           /\ e.from = "write"
           /\ e.at \in LoopLines
           /\ e.during \in CallNames

\* C7: a SetupClock call started inside usb.Poll and ran to its end
C7_Witness ==
  /\ setupLog # <<>>
  /\ setupLog[Len(setupLog)].from = "write"
  /\ setupLog[Len(setupLog)].during = "usb.Poll"
  /\ inCall = "usb.Poll"
  /\ ClockApplied(setupLog[Len(setupLog)].arg)

\* C8: two runs of the update path with the same can_hz select the same
\* frequency and pass the same argument to SetupClock; every run of the
\* update path calls SetupClock once, and leaves can_hz as it read it
C8_Idempotent ==
  /\ \A i, j \in Updates :
       HzOf(i) = HzOf(j) =>
         /\ SelOf(i) = SelOf(j)
         /\ setupLog[i].arg = setupLog[j].arg
  /\ Done("Load") => Cardinality(Updates) = 1 + nWrites
  /\ Updates # {} => can_hz = HzOf(Len(setupLog))

\* C8: the update path ran twice with can_hz = 60,000,000, to the end
C8_Witness ==
  /\ \E i, j \in Updates : i < j /\ HzOf(i) = 60000000 /\ HzOf(j) = 60000000
  /\ ClockApplied(120000000)

\* C9 as claimed: the selection is monotonic over all values of can_hz
C9_Monotonic ==
  \A i, j \in Updates : HzOf(i) <= HzOf(j) => SelOf(i) <= SelOf(j)

\* C9 as amended: the selection is monotonic over the values of can_hz
\* from 60,000,000 up
C9_MonotonicFromLowestTier ==
  \A i, j \in Updates :
    (60000000 <= HzOf(i) /\ HzOf(i) <= HzOf(j)) => SelOf(i) <= SelOf(j)

\* C9: two selections for values above 60,000,000, the second higher
C9_Witness ==
  \E i, j \in Updates :
    /\ 60000000 <= HzOf(i) /\ HzOf(i) < HzOf(j)
    /\ SelOf(i) < SelOf(j)

\* C10: SetupClock performs its steps in the order HSI switch, oscillator
\* and PLL, PLL switch, FDCAN clock, each at most once, and all four when it
\* returns; the PLL is programmed only while the system clock runs from
\* HSI, and the FDCAN clock is selected only after the switch to the PLL
C10_StepOrder ==
  /\ IsPrefix(steps, AllSteps)
  /\ (sc = "none" /\ setupLog # <<>>) =>
       /\ steps = AllSteps
       /\ rcc.SYSCLKSource = "PLLCLK"
       /\ rcc.PLLN = PLLN(clock_rate_hz)
       /\ rcc.FdcanClockSelection = "PCLK1"
  /\ sc = "OscConfig" =>
       steps = <<"ClockConfigHSI">> /\ rcc.SYSCLKSource = "HSI"
  /\ sc = "ClockConfigPLL" =>
       steps = <<"ClockConfigHSI", "OscConfig">> /\ rcc.SYSCLKSource = "HSI"
  /\ sc = "PeriphCLKConfig" =>
       /\ steps = <<"ClockConfigHSI", "OscConfig", "ClockConfigPLL">>
       /\ rcc.SYSCLKSource = "PLLCLK"

\* C10: a SetupClock call made on a write ran to its end, for 120,000,000
C10_Witness ==
  /\ ClockApplied(120000000)
  /\ rcc.PLLN = 60
  /\ rcc.FdcanClockSelection = "PCLK1"
  /\ setupLog[Len(setupLog)].from = "write"

\* milliseconds of timer time since the read of start
Elapsed == clock - cycle.at

\* the check of the inner loop is made and main() moves on
Checked == pc = "L187" /\ pc' # pc

\* C11 as claimed: no inner pass begins after a check whose timer read is
\* 10 ms or more after the read of start
C11_NoPassFromTen ==
  [][(Checked /\ pc' = "L190") => Elapsed < 10]_vars

\* C11 as amended: no inner pass begins after a check whose timer read is
\* more than 10 ms after the read of start, and the loop ends at such a
\* check; at a difference of exactly 10 ms, as at any smaller one, another
\* pass begins
C11_NoPassAboveTen ==
  [][Checked =>
       /\ pc' = "L190" => Elapsed <= 10
       /\ Elapsed > 10 => pc' = "L195"
       /\ Elapsed = 10 => pc' = "L190"]_vars

\* C11: the inner loop ended after passes, at a check made 11 ms after the
\* read of start
C11_Witness ==
  /\ pc = "L195"
  /\ inCall = "none"
  /\ calls = <<>>
  /\ ~cycle.idle
  /\ Elapsed = 11

\* C12 as claimed: every outer cycle makes at least one full inner pass
\* before its Poll10Ms calls, so that two rounds of Poll10Ms calls always
\* have Poll calls between them
C12_PassInEveryCycle ==
  pc \in {"L195", "L196"} => ~cycle.idle

\* C12 as amended: the check is made before every inner pass, the first
\* included, and after every full pass. A cycle whose first check comes at
\* most 10 ms after its read of start makes a full pass before its Poll10Ms
\* calls; a cycle whose first check comes later makes no Poll call at all
\* and goes straight to its Poll10Ms calls
C12_PassUnlessLate ==
  [][Checked =>
       /\ calls = <<>> \/ calls = Pass
       /\ (calls = <<>> /\ Elapsed <= 10) => (pc' = "L190" /\ ~cycle'.idle)
       /\ (calls = <<>> /\ Elapsed > 10) => (pc' = "L195" /\ cycle'.idle)
       /\ calls = Pass => ~cycle'.idle]_vars

\* C12: a second round of Poll10Ms calls follows the first with no Poll
\* call between them
C12_Witness ==
  /\ inCall = "usb.Poll10Ms"
  /\ cycle.idle
  /\ gap10["usb.Poll10Ms"] >= 11
  /\ gap10["can_manager.Poll10Ms"] >= 11

\* a round of Poll10Ms calls has begun
RoundMade == last10["can_manager.Poll10Ms"] >= 0

\* C13: once the inner loop has ended, main() calls can_manager.Poll10Ms
\* and then usb.Poll10Ms, each once and with no Poll call between or
\* around them, after the check that found more than 10 ms elapsed and
\* before start is read again; the next pass begins only after that read
C13_MaintenanceRound ==
  /\ \A i \in DOMAIN calls : calls[i] \in CallNames
  /\ DOMAIN last10 = {"can_manager.Poll10Ms", "usb.Poll10Ms"}
  /\ inCall \in {"can_manager.Poll10Ms", "usb.Poll10Ms"} =>
       pc \in {"L195", "L196"}
  /\ pc \in {"L195", "L196"} =>
       /\ IsPrefix(calls, Maintenance)
       /\ Elapsed > 10
  /\ pc = "L195" =>
       \/ inCall = "none" /\ calls = <<>>
       \/ inCall = "can_manager.Poll10Ms" /\ calls = <<"can_manager.Poll10Ms">>
  /\ pc = "L196" =>
       \/ inCall = "none" /\ calls = <<"can_manager.Poll10Ms">>
       \/ inCall = "usb.Poll10Ms" /\ calls = Maintenance
  /\ (pc = "L185" /\ RoundMade) =>
       /\ calls = Maintenance
       /\ cycle.at + 10 < last10["can_manager.Poll10Ms"]
       /\ last10["can_manager.Poll10Ms"] <= last10["usb.Poll10Ms"]
       /\ last10["usb.Poll10Ms"] <= clock
  /\ (pc \in {"L187", "L190", "L191", "L192"} /\ RoundMade) =>
       /\ last10["can_manager.Poll10Ms"] <= last10["usb.Poll10Ms"]
       /\ last10["usb.Poll10Ms"] <= cycle.at

\* C13: the second round of Poll10Ms calls is complete, after a cycle that
\* made passes, and start has not been read again
C13_Witness ==
  /\ pc = "L185"
  /\ inCall = "none"
  /\ calls = Maintenance
  /\ ~cycle.idle
  /\ gap10["can_manager.Poll10Ms"] >= 0
  /\ gap10["usb.Poll10Ms"] >= 0

\* the counter overflowed since start was read: it now reads less than start
Wrapped ==
  \/ read_ms[1] < start[1]
  \/ read_ms[1] = start[1] /\ read_ms[2] < start[2]

\* C14: at every check the unsigned difference now - start is the time that
\* passed since start was read, also when the counter overflowed in
\* between, and the inner loop ends at that check exactly when that time is
\* more than 10 ms: a cycle that straddles the overflow ends neither early
\* nor late
C14_Wraparound ==
  [][Checked =>
       /\ Sub32(read_ms, start) = <<0, Elapsed>>
       /\ pc' = "L195" <=> Elapsed > Period
       /\ Wrapped => (pc' = "L190" <=> Elapsed <= Period)]_vars

\* C14: a cycle that read start before the overflow of the counter ended
\* after it, after passes, at a check made 11 ms after the read of start
C14_Witness ==
  /\ pc = "L195"
  /\ inCall = "none"
  /\ calls = <<>>
  /\ Wrapped
  /\ start[1] = Half - 1
  /\ read_ms[1] = 0
  /\ ~cycle.idle
  /\ Elapsed = 11

\* C15 as claimed: when the timer keeps counting, every call returns and no
\* step of SetupClock fails, each of the five calls of the loop is made
\* again and again
C15_AllInvoked ==
  \A c \in CallNames : []<>(inCall = c \/ Halted)

\* C15 as amended: the loop is never left; while a call of the loop has not
\* returned main() does nothing else, so no Poll10Ms call is made and
\* nothing is reported; when the timer keeps counting, every call returns
\* and no step of SetupClock fails, the two Poll10Ms calls are made again
\* and again, and so are the three Poll calls unless from some time on
\* every check finds more than 10 ms gone and no pass begins any more
C15_NoStarvation ==
  /\ [][(pc \in LoopLines) => (pc' \in LoopLines)]_vars
  /\ [][(inCall # "none" /\ inCall' = inCall) =>
          UNCHANGED <<pc, calls, bootLog, gap10>>]_vars
  /\ \A c \in {"can_manager.Poll10Ms", "usb.Poll10Ms"} :
       []<>(inCall = c \/ Halted)
  /\ \A c \in {"uart.Poll", "can_manager.Poll", "usb.Poll"} :
       \/ []<>(inCall = c \/ Halted)
       \/ <>[](pc \notin {"L190", "L191", "L192"})

\* C15: the loop polls again after two rounds of Poll10Ms calls, with time
\* counted from a later origin than the entry of the loop
C15_Witness ==
  /\ inCall = "uart.Poll"
  /\ gap10["usb.Poll10Ms"] >= 0
  /\ nWrites = MaxWrites
  /\ ClockApplied(120000000)
  /\ last10["usb.Poll10Ms"] = 0
  /\ clock > 0

\* C16: the drivers are set up once each, at boot, under the 170,000,000
\* Hz that main() applies first, and a later run of the update path, when
\* Load or a write makes the system clock 120,000,000 or 160,000,000,
\* changes nothing of them: they stay as constructed, and the calls of the
\* loop stay the same calls in the same order
C16_DriversUntouched ==
  /\ \A d \in DOMAIN drivers :
       /\ drivers[d].inits <= 1
       /\ drivers[d].inits = 1 => drivers[d].hz = 170000000
       /\ Done(d) <=> drivers[d].inits = 1
  /\ Updates # {} =>
       \A d \in {"usb", "uart"} : drivers[d] = [hz |-> 170000000, inits |-> 1]
  /\ pc \in LoopLines =>
       \A d \in DOMAIN drivers : drivers[d] = [hz |-> 170000000, inits |-> 1]
  /\ nWrites > 0 =>
       /\ IsPrefix(calls, Pass) \/ IsPrefix(calls, Maintenance)
       /\ (pc = "L187" /\ calls # <<>>) => calls = Pass

\* C16: a write made the system clock 120,000,000 after Load had made it
\* 160,000,000, the loop has made a pass since, and the drivers are as
\* constructed
C16_Witness ==
  /\ ClockApplied(120000000)
  /\ \E i, j \in Updates :
       /\ setupLog[i].from = "Load" /\ setupLog[i].arg = 160000000
       /\ setupLog[j].from = "write" /\ setupLog[j].arg = 120000000
  /\ pc = "L187"
  /\ calls = Pass
  /\ \A d \in DOMAIN drivers : drivers[d] = [hz |-> 170000000, inits |-> 1]

\* the last SetupClock call made all its steps, each with success, and the
\* clock tree is the one it programs
ClockConfigured ==
  /\ sc = "none"
  /\ steps = AllSteps
  /\ hal_status = "HAL_OK"
  /\ clock_rate_hz \in {120000000, 160000000, 170000000}
  /\ rcc.SYSCFG_PWR_EN
  /\ rcc.PLL
  /\ rcc.PLLSource = "HSI"
  /\ rcc.PLLN = PLLN(clock_rate_hz)
  /\ rcc.SYSCLKSource = "PLLCLK"
  /\ rcc.FdcanClockSelection = "PCLK1"

\* C17: wherever main() is in its loop with no call in progress, and so
\* whenever it begins a Poll or Poll10Ms call, the last SetupClock call has
\* made all its steps with success, the system clock runs from the PLL and
\* the FDCAN clock is selected; a SetupClock call in progress, or one that
\* failed, is only ever found before the loop or inside a call
C17_ConfiguredAtPoll ==
  /\ (pc \in LoopLines /\ inCall = "none") => ClockConfigured
  /\ (sc # "none" /\ pc \in LoopLines) => inCall # "none"

\* C17: can_manager.Poll10Ms begins, with the clock tree of a write made
\* inside usb.Poll fully programmed
C17_Witness ==
  /\ inCall = "can_manager.Poll10Ms"
  /\ calls = <<"can_manager.Poll10Ms">>
  /\ setupLog[Len(setupLog)].from = "write"
  /\ setupLog[Len(setupLog)].during = "usb.Poll"
  /\ ClockConfigured
  /\ clock_rate_hz = 120000000

\* the frequency of the PLL output the clock tree is programmed for, with an
\* HSI of 16 MHz: HSI / PLLM * PLLN / PLLR
PllOut == ((16000000 \div rcc.PLLM) * rcc.PLLN) \div rcc.PLLR

\* the frequency of PCLK1 when the system clock is PllOut
Pclk1 == (PllOut \div rcc.AHBCLKDivider) \div rcc.APB1CLKDivider

\* C18: whenever a SetupClock call has run to its end, its argument T is
\* one of 120,000,000 / 160,000,000 / 170,000,000, no division of the PLLN
\* expression or of the PLL chain leaves a remainder, PLLN is 60, 80 or 85,
\* the PLL output for an HSI of 16 MHz is T, and PCLK1, the FDCAN clock, is
\* T / 2, the frequency the update path selected
C18_PllPlan ==
  (sc = "none" /\ setupLog # <<>>) =>
    LET T == clock_rate_hz
        last == setupLog[Len(setupLog)]
    IN  /\ T \in {120000000, 160000000, 170000000}
        /\ T % 1000000 = 0
        /\ ((T \div 1000000) * 24) % 48 = 0
        /\ rcc.PLLN * 2000000 = T
        /\ rcc.PLLN \in {60, 80, 85}
        /\ T = 120000000 => rcc.PLLN = 60
        /\ T = 160000000 => rcc.PLLN = 80
        /\ T = 170000000 => rcc.PLLN = 85
        /\ rcc.PLLM = 4 /\ rcc.PLLR = 2
        /\ 16000000 % rcc.PLLM = 0
        /\ ((16000000 \div rcc.PLLM) * rcc.PLLN) % rcc.PLLR = 0
        /\ PllOut = T
        /\ rcc.AHBCLKDivider = 1 /\ rcc.APB1CLKDivider = 2
        /\ rcc.FdcanClockSelection = "PCLK1"
        /\ Pclk1 * 2 = T
        /\ last.from # "main" => Pclk1 = last.sel[1]
        /\ last.from = "main" => Pclk1 = 85000000

\* C18: the three targets were applied in one run, 170,000,000 by main(),
\* 160,000,000 on Load and 120,000,000, the one in force, on a write
C18_Witness ==
  /\ Len(setupLog) = 3
  /\ setupLog[1].arg = 170000000
  /\ setupLog[2].arg = 160000000
  /\ setupLog[3].arg = 120000000
  /\ ClockApplied(120000000)
  /\ rcc.PLLN = 60
  /\ PllOut = 120000000
  /\ Pclk1 = 60000000

====
